---- MODULE Spec2Model ----
\* letterboxd2notion: the Letterboxd feed parser, the diary page parser with
\* its pagination driver, and the TMDB enrichment of a Film.
\*
\* One state machine with four entry points (task): the caller starts one of
\*   "row"    _parse_diary_row on one diary table row,
\*   "diary"  parse_all_diary_pages over a paginated diary,
\*   "feed"   parse_rss_feed on one fetched feed document,
\*   "enrich" enrich_film_with_tmdb, called on a Film and again on its result,
\* and the actions below are the steps of that call.
\*
\* Conventions. An optional value is a sequence of at most one element: None
\* is <<>> and a present value v is Some(v) = <<v>>. A text that the code hands
\* to int() or float() is a sequence of one-character strings, parsed by PyInt
\* and PyFloat as Python parses it; the text of an XML element is such a
\* sequence, and the empty one is the element's text None (ElementTree gives
\* None for an empty element). A float with one decimal is kept in tenths (3.5
\* is 35). A date is <<year, month, day>>.
\* A raised exception is an outcome [kind |-> "raise", ...]; a returned value is
\* [kind |-> "return", value |-> ...].
EXTENDS Integers, Sequences, FiniteSets, TLC

None == <<>>

Some(v) == <<v>>

Get(o) == o[1]

\* ---------------------------------------------------------------- bounds
MaxSuffixLen == 2
MaxPages == 2
MaxRowsPerPage == 2
MaxLatency == 1
MaxItems == 2
MaxCalls == 2
MaxResults == 2

\* ------------------------------------------------------- Python built-ins
Digits == <<"0", "1", "2", "3", "4", "5", "6", "7", "8", "9">>

IsDigit(c) == \E i \in 1..10 : Digits[i] = c

DigitVal(c) == (CHOOSE i \in 1..10 : Digits[i] = c) - 1

RECURSIVE DigitsVal(_)
DigitsVal(s) ==
    IF s = <<>> THEN 0
    ELSE 10 * DigitsVal(SubSeq(s, 1, Len(s) - 1)) + DigitVal(s[Len(s)])

AllDigits(s) == Len(s) > 0 /\ \A i \in 1..Len(s) : IsDigit(s[i])

Signed(s) == Len(s) > 0 /\ s[1] \in {"+", "-"}

Unsigned(s) == IF Signed(s) THEN Tail(s) ELSE s

\* int(text): an optional sign and one or more decimal digits, else ValueError.
\* (The texts of the model hold no blank and no underscore.)
PyIntOk(s) == AllDigits(Unsigned(s))

PyInt(s) ==
    IF Signed(s) /\ s[1] = "-"
    THEN 0 - DigitsVal(Unsigned(s))
    ELSE DigitsVal(Unsigned(s))

\* float(text), for the texts of the model: an optional sign, digits, and
\* optionally a point and at most one digit; else ValueError. Value in tenths.
DotAt(s) == {i \in 1..Len(s) : s[i] = "."}

PyFloatOk(s) ==
    LET u == Unsigned(s) IN
    IF DotAt(u) = {} THEN AllDigits(u)
    ELSE LET d == CHOOSE i \in DotAt(u) : TRUE
             int == SubSeq(u, 1, d - 1)
             frac == SubSeq(u, d + 1, Len(u))
         IN /\ Cardinality(DotAt(u)) = 1
            /\ Len(frac) <= 1
            /\ Len(int) + Len(frac) > 0
            /\ \A i \in 1..Len(int) : IsDigit(int[i])
            /\ \A i \in 1..Len(frac) : IsDigit(frac[i])

PyFloat(s) ==
    LET u == Unsigned(s)
        mag == IF DotAt(u) = {} THEN 10 * DigitsVal(u)
               ELSE LET d == CHOOSE i \in DotAt(u) : TRUE
                    IN 10 * DigitsVal(SubSeq(u, 1, d - 1))
                       + DigitsVal(SubSeq(u, d + 1, Len(u)))
    IN IF Signed(s) /\ s[1] = "-" THEN 0 - mag ELSE mag

\* datetime.date(y, m, d): ValueError unless (y, m, d) is a calendar date.
IsLeap(y) == (y % 4 = 0 /\ y % 100 # 0) \/ y % 400 = 0

DaysInMonth(y, m) ==
    IF m = 2 THEN (IF IsLeap(y) THEN 29 ELSE 28)
    ELSE IF m \in {4, 6, 9, 11} THEN 30 ELSE 31

DateOk(y, m, d) ==
    /\ y \in 1..9999
    /\ m \in 1..12
    /\ d >= 1
    /\ d <= DaysInMonth(y, m)

Return(v) == [kind |-> "return", value |-> v]

Raise(e) == [kind |-> "raise", exc |-> e]

Pending == [kind |-> "pending"]

\* An exception: its class and the one argument it was constructed with (None
\* when it was constructed without one, and so carries its class's default).
Exc(type, arg) == [type |-> type, arg |-> arg]

RateLimitError(retry_after) == Exc("RateLimitError", retry_after)

\* response.raise_for_status() on an error status.
HTTPStatusError(status) == Exc("HTTPStatusError", Some(status))

\* client.get that ends without a response (connection error, timeout).
TransportError == Exc("TransportError", None)

ValueError == Exc("ValueError", None)

IsErrorStatus(status) == status >= 400

\* The Film model: every field, the artwork fields absent until enrichment.
Film(letterboxd_id, tmdb_id, title, year, url, rating, watched_date, rewatch, review) ==
    [letterboxd_id |-> letterboxd_id, tmdb_id |-> tmdb_id, title |-> title,
     year |-> year, letterboxd_url |-> url, rating |-> rating,
     watched_date |-> watched_date, rewatch |-> rewatch, review |-> review,
     backdrop_url |-> None, poster_url |-> None]

\* ------------------------------------------------------- diary row parser
\* A row of the diary table, as the selectors of _parse_diary_row see it:
\*   viewing_id  the data-viewing-id attribute ("" when absent or empty),
\*   poster      None, or Some([name, slug]) of div.react-component
\*               [data-item-slug]; a name is [stem, year]: the text before a
\*               trailing " (YYYY)" and Some(YYYY), or the whole text and None,
\*   rating_span the class list of span.rating (<<>> when there is no span),
\*   daydate     None, or the <<y, m, d>> of the a.daydate href /for/y/m/d,
\*   rewatch_td  None, or Some(the class set of td.col-rewatch).
\* A class token of the rating span: "rating", or "rated-" followed by a
\* suffix.
PlainClass(name) == [head |-> name, suffix |-> <<>>]

RatedClass(suffix) == [head |-> "rated-", suffix |-> suffix]

\* half_stars / 2.0, in tenths of a star.
HalfStars(half_stars) == half_stars * 5

\* The for loop of _extract_rating over the class list from position i on: the
\* first "rated-" token whose suffix int() accepts decides; a token it rejects
\* is passed over.
RECURSIVE RatingFromClasses(_, _)
RatingFromClasses(classes, i) ==
    IF i > Len(classes) THEN None
    ELSE IF classes[i].head = "rated-" /\ PyIntOk(classes[i].suffix)
         THEN Some(HalfStars(PyInt(classes[i].suffix)))
         ELSE RatingFromClasses(classes, i + 1)

\* select_one("span.rating[class*='rated-']"): the span is found when it has
\* the class rating and its class attribute holds the text "rated-".
RatingSpanSelected(span) ==
    /\ \E i \in 1..Len(span) : span[i].head = "rating"
    /\ \E i \in 1..Len(span) : span[i].head = "rated-"

extract_rating(row) ==
    IF RatingSpanSelected(row.rating_span)
    THEN RatingFromClasses(row.rating_span, 1)
    ELSE None

extract_watched_date(row) ==
    IF row.daydate = None THEN None
    ELSE IF DateOk(row.daydate[1], row.daydate[2], row.daydate[3])
         THEN Some(row.daydate)
         ELSE None

\* rewatch of _parse_diary_row: the cell td.col-rewatch exists (its class list
\* is then a list) and the list does not hold icon-status-off.
Rewatch(rewatch_td) ==
    rewatch_td # None /\ "icon-status-off" \notin Get(rewatch_td)

parse_diary_row(row) ==
    IF row.viewing_id = "" THEN None
    ELSE IF row.poster = None THEN None
    ELSE IF Get(row.poster).name = [stem |-> "", year |-> None]
            \/ Get(row.poster).slug = "" THEN None
    ELSE
        LET name == Get(row.poster).name IN
        Some(Film("letterboxd-viewing-" \o row.viewing_id,
                  None,
                  name.stem,
                  IF name.year # None THEN Get(name.year) ELSE 0,
                  "https://letterboxd.com/film/" \o Get(row.poster).slug \o "/",
                  extract_rating(row),
                  extract_watched_date(row),
                  Rewatch(row.rewatch_td),
                  None))

\* ---------------------------------------------------------- state
VARIABLES
    task,           \* the entry point the caller started
    pc,             \* the position of the call
    outcome,        \* what the caller has received: Pending, Return or Raise
    row,            \* row: the argument of _parse_diary_row
    page,           \* diary: the local page of parse_all_diary_pages
    all_films,      \* diary: the local all_films (kept as it was at a raise)
    fetched,        \* diary: (films, has_more) of the latest parse_diary_page
    page_log,       \* diary, history: the films of each page fetched so far
    on_page_calls,  \* diary, history: the arguments on_page was called with
    requests,       \* diary, history: each request's page and time, and the
                    \* status and Retry-After header that answered it
    clock,          \* diary: the time, in seconds
    sleeps,         \* diary, history: how many pacing delays have completed
    response,       \* feed: the response of the feed fetch
    item_idx,       \* feed: how many items of the document have been handled
    films,          \* feed: the local films
    film,           \* enrich: the argument of the next call
    calls,          \* enrich, history: the argument and outcome of each call
    tmdb_log        \* enrich, history: each request to TMDB and its response

vars == <<task, pc, outcome, row, page, all_films, fetched, page_log,
          on_page_calls, requests, clock, sleeps, response, item_idx, films,
          film, calls, tmdb_log>>

row_vars == <<row>>

diary_vars == <<page, all_films, fetched, page_log, on_page_calls, requests,
                clock, sleeps>>

feed_vars == <<response, item_idx, films>>

enrich_vars == <<film, calls, tmdb_log>>

\* ----------------------------------------------------------- row inputs
RECURSIVE SeqsUpTo(_, _)
SeqsUpTo(S, n) ==
    IF n = 0 THEN {<<>>}
    ELSE LET shorter == SeqsUpTo(S, n - 1)
         IN shorter \cup {Append(s, c) : s \in shorter, c \in S}

SuffixChars == {"0", "1", "7", "x", "-"}

Suffixes == SeqsUpTo(SuffixChars, MaxSuffixLen)

RatingSpans ==
    {<<>>, <<PlainClass("rating")>>, <<RatedClass(<<"7">>)>>}
    \cup {<<PlainClass("rating"), RatedClass(s)>> : s \in Suffixes}
    \cup {<<PlainClass("rating"), RatedClass(s), RatedClass(<<"7">>)>> :
             s \in {<<>>, <<"x">>, <<"0">>}}

Names ==
    {[stem |-> "", year |-> None],
     [stem |-> "Home Alone", year |-> Some(1990)],
     [stem |-> "Didi", year |-> None]}

Posters ==
    {None}
    \cup {Some([name |-> n, slug |-> "home-alone"]) : n \in Names}
    \cup {Some([name |-> [stem |-> "Didi", year |-> None], slug |-> ""])}

DayDates == {None, <<2025, 12, 26>>, <<2025, 2, 30>>}

RewatchCells ==
    {None} \cup {Some({"col-rewatch"} \cup m) :
                   m \in SUBSET {"icon-rewatch", "icon-status-off"}}

Rows ==
    [viewing_id : {"", "42"}, poster : Posters, rating_span : RatingSpans,
     daydate : DayDates, rewatch_td : RewatchCells]

NoRow ==
    [viewing_id |-> "", poster |-> None, rating_span |-> <<>>,
     daydate |-> None, rewatch_td |-> None]

\* --------------------------------------------------------- diary pages
PacingDelay == 2

\* The site's diary: page p holds up to MaxRowsPerPage rows, and no rows past
\* page MaxPages. Row i of page p is the viewing numbered "pi"; a row of shape
\* "junk" lacks its viewing id.
RowShapes == {"film", "junk"}

DiaryRow(p, i, shape) ==
    [viewing_id |-> IF shape = "junk" THEN "" ELSE Digits[p + 1] \o Digits[i + 1],
     poster |-> Some([name |-> [stem |-> "Home Alone", year |-> Some(1990)],
                      slug |-> "home-alone"]),
     rating_span |-> <<PlainClass("rating"), RatedClass(<<"7">>)>>,
     daydate |-> <<2025, 12, 26>>,
     rewatch_td |-> Some({"col-rewatch", "icon-status-off"})]

DiaryPages(p) ==
    {[i \in 1..n |-> DiaryRow(p, i, shapes[i])] :
        n \in 0..(IF p <= MaxPages THEN MaxRowsPerPage ELSE 0),
        shapes \in [1..MaxRowsPerPage -> RowShapes]}

RetryAfterHeaders == {None, <<"1", "2", "0">>}

DiaryResponses(p) ==
    {[status |-> 200, retry_after |-> None, rows |-> rows] : rows \in DiaryPages(p)}
    \cup {[status |-> 429, retry_after |-> h, rows |-> <<>>] : h \in RetryAfterHeaders}
    \cup {[status |-> 500, retry_after |-> None, rows |-> <<>>],
           [status |-> 0, retry_after |-> None, rows |-> <<>>]}

\* The for loop of parse_diary_page over the rows from position i on.
RECURSIVE ParseRows(_, _)
ParseRows(rows, i) ==
    IF i > Len(rows) THEN <<>>
    ELSE LET parsed == parse_diary_row(rows[i])
         IN (IF parsed # None THEN <<Get(parsed)>> ELSE <<>>)
            \o ParseRows(rows, i + 1)

\* HasMoreMutant: a page counts as the last one unless it is full.
HasMoreMutant(page_films) == Len(page_films) >= MaxRowsPerPage

HasMore(page_films) == Len(page_films) > 0

\* parse_diary_page on the response of its request; status 0 stands for a
\* request that ended without a response.
parse_diary_page(resp) ==
    IF resp.status = 0 THEN Raise(TransportError)
    ELSE IF resp.status = 429 THEN Raise(RateLimitError(None))
    ELSE IF IsErrorStatus(resp.status) THEN Raise(HTTPStatusError(resp.status))
    ELSE LET page_films == ParseRows(resp.rows, 1)
         IN Return([films |-> page_films, has_more |-> HasMore(page_films)])

NoPage == [films |-> <<>>, has_more |-> FALSE]

\* One pass of the while loop up to the await: on_page(page), the request for
\* the page, and parse_diary_page on what comes back after some latency.
DiaryFetchPage ==
    /\ task = "diary"
    /\ pc = "loop"
    /\ \E resp \in DiaryResponses(page), latency \in 0..MaxLatency :
        LET got == parse_diary_page(resp) IN
        /\ on_page_calls' = Append(on_page_calls, page)
        /\ requests' = Append(requests, [page |-> page, at |-> clock,
                                         status |-> resp.status,
                                         retry_after |-> resp.retry_after])
        /\ clock' = clock + latency
        /\ IF got.kind = "raise"
           THEN /\ pc' = "raised"
                /\ outcome' = got
                /\ UNCHANGED <<fetched, page_log>>
           ELSE /\ pc' = "fetched"
                /\ fetched' = got.value
                /\ page_log' = Append(page_log, got.value.films)
                /\ UNCHANGED outcome
    /\ UNCHANGED <<task, page, all_films, sleeps>>
    /\ UNCHANGED <<row_vars, feed_vars, enrich_vars>>

\* The rest of the pass: break on an empty page; else extend, count the page
\* and break when has_more is false; else go on to the pacing delay.
DiaryAfterPage ==
    /\ task = "diary"
    /\ pc = "fetched"
    /\ IF fetched.films = <<>>
       THEN /\ pc' = "returned"
            /\ outcome' = Return(all_films)
            /\ UNCHANGED <<all_films, page>>
       ELSE /\ all_films' = all_films \o fetched.films
            /\ page' = page + 1
            /\ IF ~fetched.has_more
               THEN /\ pc' = "returned"
                    /\ outcome' = Return(all_films')
               ELSE /\ pc' = "sleep"
                    /\ UNCHANGED outcome
    /\ UNCHANGED <<task, fetched, page_log, on_page_calls, requests, clock, sleeps>>
    /\ UNCHANGED <<row_vars, feed_vars, enrich_vars>>

\* DiarySleepSkipped: the loop goes on without the delay.
DiarySleepSkipped ==
    /\ task = "diary"
    /\ pc = "sleep"
    /\ pc' = "loop"
    /\ UNCHANGED <<task, outcome, page, all_films, fetched, page_log,
                   on_page_calls, requests, clock, sleeps>>
    /\ UNCHANGED <<row_vars, feed_vars, enrich_vars>>

\* await asyncio.sleep(2), then the loop again.
DiarySleep ==
    /\ task = "diary"
    /\ pc = "sleep"
    /\ clock' = clock + PacingDelay
    /\ sleeps' = sleeps + 1
    /\ pc' = "loop"
    /\ UNCHANGED <<task, outcome, page, all_films, fetched, page_log,
                   on_page_calls, requests>>
    /\ UNCHANGED <<row_vars, feed_vars, enrich_vars>>

\* ------------------------------------------------------------- feed
ParseError == Exc("ParseError", None)

\* A paragraph of the description: whether it holds an img, its visible text
\* stripped, and whether that text starts with the spoiler preamble.
Paragraph(img, spoiler, text) == [img |-> img, spoiler |-> spoiler, text |-> text]

\* The loop of _extract_review_from_description from paragraph i on, then the
\* join; joined is "" while nothing has been kept.
RECURSIVE ReviewParts(_, _)
ReviewParts(paragraphs, i) ==
    IF i > Len(paragraphs) THEN <<>>
    ELSE LET p == paragraphs[i]
             keep == ~(p.img /\ p.text = "") /\ ~p.spoiler /\ p.text # ""
         IN (IF keep THEN <<p.text>> ELSE <<>>) \o ReviewParts(paragraphs, i + 1)

RECURSIVE Join(_, _)
Join(parts, sep) ==
    IF Len(parts) = 1 THEN parts[1]
    ELSE parts[1] \o sep \o Join(Tail(parts), sep)

extract_review_from_description(item) ==
    IF item.description = None THEN None
    ELSE LET review_parts == ReviewParts(Get(item.description), 1)
         IN IF review_parts # <<>> THEN Some(Join(review_parts, "\n\n")) ELSE None

\* date.fromisoformat on the text of watchedDate: a text of the shape
\* YYYY-MM-DD naming a calendar date, else ValueError.
FromIsoFormatOk(text) ==
    text.shape = "iso" /\ DateOk(text.ymd[1], text.ymd[2], text.ymd[3])

\* An item of the feed: the text of each child element (None when the element
\* is missing or empty). _parse_rss_item returns a Film, returns None for an
\* item it skips, or raises what int, float or date.fromisoformat raise.
parse_rss_item(item) ==
    IF item.guid = None THEN Return(None)
    ELSE IF item.title = None THEN Return(None)
    ELSE IF item.year = None THEN Return(None)
    ELSE IF ~PyIntOk(item.year) THEN Raise(ValueError)
    ELSE IF item.rating # None /\ ~PyFloatOk(item.rating) THEN Raise(ValueError)
    ELSE IF item.watched # None /\ ~FromIsoFormatOk(Get(item.watched))
         THEN Raise(ValueError)
    ELSE IF item.tmdb # None /\ ~PyIntOk(item.tmdb) THEN Raise(ValueError)
    ELSE Return(Some(
        Film(Get(item.guid),
             IF item.tmdb # None THEN Some(PyInt(item.tmdb)) ELSE None,
             Get(item.title),
             PyInt(item.year),
             IF item.link # None THEN Get(item.link) ELSE "",
             IF item.rating # None THEN Some(PyFloat(item.rating)) ELSE None,
             IF item.watched # None THEN Some(Get(item.watched).ymd) ELSE None,
             item.rewatch # None /\ Get(item.rewatch) = "Yes",
             extract_review_from_description(item))))

FeedDefaultRetryAfter == 60

\* The head of parse_rss_feed, up to the parsed document: the outcome it
\* raises, or Return(the items of the document).
FeedDocument(resp) ==
    IF resp.status = 0 THEN Raise(TransportError)
    ELSE IF resp.status = 429
         THEN IF resp.retry_after = None
              THEN Raise(RateLimitError(Some(FeedDefaultRetryAfter)))
              ELSE IF PyIntOk(resp.retry_after)
                   THEN Raise(RateLimitError(Some(PyInt(resp.retry_after))))
                   ELSE Raise(ValueError)
    ELSE IF IsErrorStatus(resp.status) THEN Raise(HTTPStatusError(resp.status))
    ELSE IF resp.body = None THEN Raise(ParseError)
    ELSE Return(Get(resp.body))

\* ------------------------------------------------------- feed inputs
Chars2016 == <<"2", "0", "1", "6">>

IsoDate(y, m, d) == [shape |-> "iso", ymd |-> <<y, m, d>>]

Description ==
    <<Paragraph(TRUE, FALSE, ""), Paragraph(FALSE, TRUE, "This review may contain spoilers."),
      Paragraph(FALSE, FALSE, "A quiet masterpiece."), Paragraph(FALSE, FALSE, "Twice.")>>

Baseline ==
    [guid |-> Some("letterboxd-review-42"), title |-> Some("Arrival"),
     year |-> Chars2016, link |-> Some("https://letterboxd.com/film/arrival/"),
     rating |-> <<"4", ".", "5">>, watched |-> Some(IsoDate(2016, 11, 12)),
     rewatch |-> Some("No"), tmdb |-> <<"3", "2", "9">>,
     description |-> Some(Description)]

\* The items whose optional fields are present or absent in every combination.
OptionalCombos ==
    [guid : {Baseline.guid}, title : {Baseline.title}, year : {Baseline.year},
     link : {Baseline.link},
     rating : {None, Baseline.rating},
     watched : {None, Baseline.watched},
     rewatch : {None, Some("Yes")},
     tmdb : {None, Baseline.tmdb},
     description : {Baseline.description}]

\* The items that differ from the baseline in the text of one field.
Variations ==
    {[Baseline EXCEPT !.guid = None], [Baseline EXCEPT !.title = None],
     [Baseline EXCEPT !.link = None]}
    \cup {[Baseline EXCEPT !.year = t] : t \in {None, <<"x">>, <<"-", "1">>}}
    \cup {[Baseline EXCEPT !.rating = t] : t \in {<<"5">>, <<"x">>, <<"4", ".", ".">>}}
    \cup {[Baseline EXCEPT !.watched = Some(t)] :
            t \in {IsoDate(2016, 2, 30), [shape |-> "other", ymd |-> <<0, 0, 0>>]}}
    \cup {[Baseline EXCEPT !.tmdb = t] : t \in {<<"0">>, <<"x">>}}
    \cup {[Baseline EXCEPT !.description = Some(d)] :
            d \in {<<>>, <<Paragraph(TRUE, FALSE, "")>>}}
    \cup {[Baseline EXCEPT !.description = None],
          [Baseline EXCEPT !.description = None, !.rating = None, !.watched = None,
                           !.rewatch = None, !.tmdb = None]}

FeedItems == OptionalCombos \cup Variations

RetryAfterDate == <<"W", "e", "d">>

FeedResponses ==
    {[status |-> 200, retry_after |-> None, body |-> Some(doc)] :
        doc \in SeqsUpTo(FeedItems, MaxItems)}
    \cup {[status |-> 200, retry_after |-> None, body |-> None]}
    \cup {[status |-> 429, retry_after |-> h, body |-> None] :
            h \in RetryAfterHeaders \cup {RetryAfterDate}}
    \cup {[status |-> 500, retry_after |-> None, body |-> None],
          [status |-> 0, retry_after |-> None, body |-> None]}

NoResponse == [status |-> 0, retry_after |-> None, body |-> None]

Items == Get(response.body)

\* client.get, the status checks and ET.fromstring.
FeedFetch ==
    /\ task = "feed"
    /\ pc = "start"
    /\ \E resp \in FeedResponses :
        LET got == FeedDocument(resp) IN
        /\ response' = resp
        /\ IF got.kind = "raise"
           THEN pc' = "raised" /\ outcome' = got
           ELSE pc' = "items" /\ UNCHANGED outcome
    /\ UNCHANGED <<task, item_idx, films>>
    /\ UNCHANGED <<row_vars, diary_vars, enrich_vars>>

\* One pass of the for loop over root.findall(".//item").
FeedParseItem ==
    /\ task = "feed"
    /\ pc = "items"
    /\ item_idx < Len(Items)
    /\ LET got == parse_rss_item(Items[item_idx + 1]) IN
        IF got.kind = "raise"
        THEN /\ pc' = "raised"
             /\ outcome' = got
             /\ UNCHANGED <<item_idx, films>>
        ELSE /\ item_idx' = item_idx + 1
             /\ films' = IF got.value # None
                         THEN Append(films, Get(got.value))
                         ELSE films
             /\ UNCHANGED <<pc, outcome>>
    /\ UNCHANGED <<task, response>>
    /\ UNCHANGED <<row_vars, diary_vars, enrich_vars>>

FeedReturn ==
    /\ task = "feed"
    /\ pc = "items"
    /\ item_idx = Len(Items)
    /\ pc' = "returned"
    /\ outcome' = Return(films)
    /\ UNCHANGED <<task, feed_vars>>
    /\ UNCHANGED <<row_vars, diary_vars, enrich_vars>>

\* --------------------------------------------------------- enrichment
TMDB_IMAGE_BASE == "https://image.tmdb.org/t/p"

TMDBError(status) == Exc("TMDBError", Some(status))

\* if film.tmdb_id: an id that is present and not zero.
Truthy(tmdb_id) == tmdb_id # None /\ Get(tmdb_id) # 0

\* The one request of a call: GET /movie/{tmdb_id}, or GET /search/movie with
\* the title and, when the year is not zero, the year.
TmdbRequest(f) ==
    IF Truthy(f.tmdb_id)
    THEN [kind |-> "movie", id |-> f.tmdb_id, query |-> "", year |-> None]
    ELSE [kind |-> "search", id |-> None, query |-> f.title,
          year |-> IF f.year # 0 THEN Some(f.year) ELSE None]

\* A response of TMDB: its status (0: the request ended without a response)
\* and its JSON: the movie of a lookup as <<movie>>, the results of a search.
fetch_movie_by_id(resp) ==
    IF resp.status = 0 THEN Raise(TransportError)
    ELSE IF resp.status = 404 THEN Return(None)
    ELSE IF resp.status # 200 THEN Raise(TMDBError(resp.status))
    ELSE Return(Some(resp.data[1]))

search_movie(resp) ==
    IF resp.status = 0 THEN Raise(TransportError)
    ELSE IF resp.status # 200 THEN Raise(TMDBError(resp.status))
    ELSE Return(IF resp.data # <<>> THEN Some(resp.data[1]) ELSE None)

ImageUrl(path) == TMDB_IMAGE_BASE \o "/w500" \o path

\* TmdbIdTruthyMutant: the film's id is kept only when it is truthy.
TmdbIdTruthyMutant(f, movie_data) ==
    IF ~Truthy(f.tmdb_id) THEN Some(movie_data.id) ELSE f.tmdb_id

\* TmdbIdOverwriteMutant: the id of the TMDB result always wins.
TmdbIdOverwriteMutant(f, movie_data) == Some(movie_data.id)

\* The tmdb_id of the update.
UpdatedTmdbId(f, movie_data) ==
    IF f.tmdb_id = None THEN Some(movie_data.id) ELSE f.tmdb_id

\* film.model_copy(update={...}) as the code writes it: both URLs are built
\* from poster_path.
ModelCopyUpdate(f, movie_data) ==
    LET backdrop_path == movie_data.backdrop_path
        poster_path == movie_data.poster_path
    IN [f EXCEPT
          !.backdrop_url = IF poster_path # None
                           THEN Some(ImageUrl(Get(poster_path))) ELSE None,
          !.poster_url = IF poster_path # None
                         THEN Some(ImageUrl(Get(poster_path))) ELSE None,
          !.tmdb_id = UpdatedTmdbId(f, movie_data)]

\* enrich_film_with_tmdb on the response to its request.
enrich_film_with_tmdb(f, resp) ==
    LET movie_data == IF Truthy(f.tmdb_id)
                      THEN fetch_movie_by_id(resp)
                      ELSE search_movie(resp)
    IN IF movie_data.kind = "raise" THEN movie_data
       ELSE IF movie_data.value = None THEN Return(f)
       ELSE Return(ModelCopyUpdate(f, Get(movie_data.value)))

\* ---------------------------------------------------- enrichment inputs
Movies ==
    [id : {1, 2}, poster_path : {None, Some("/p.jpg")},
     backdrop_path : {None, Some("/b.jpg")}]

\* The results of a search: none, or any movie first and then up to
\* MaxResults - 1 further results, each another movie than the first.
OtherMovie ==
    [id |-> 3, poster_path |-> Some("/q.jpg"), backdrop_path |-> Some("/c.jpg")]

SearchResults ==
    {<<>>} \cup {<<m>> \o [i \in 1..n |-> OtherMovie] :
                   m \in Movies, n \in 0..(MaxResults - 1)}

TmdbResponses(req) ==
    IF req.kind = "movie"
    THEN {[status |-> 200, data |-> <<m>>] : m \in Movies}
         \cup {[status |-> st, data |-> <<>>] : st \in {404, 500, 0}}
    ELSE {[status |-> 200, data |-> results] : results \in SearchResults}
         \cup {[status |-> st, data |-> <<>>] : st \in {500, 0}}

\* The Films handed to enrichment: a Film of the feed or of the diary, with
\* no artwork yet.
EnrichFilms ==
    {Film("letterboxd-review-42", id, "Arrival", year,
          "https://letterboxd.com/film/arrival/", Some(45), None, FALSE, None) :
        id \in {None, Some(0), Some(1), Some(2)}, year \in {0, 2016}}

NoFilm ==
    Film("", None, "", 0, "", None, None, FALSE, None)

\* One call of enrich_film_with_tmdb; the caller hands the Film a call
\* returns to the next call.
EnrichCall ==
    /\ task = "enrich"
    /\ pc = "call"
    /\ Len(calls) < MaxCalls
    /\ \E resp \in TmdbResponses(TmdbRequest(film)) :
        LET got == enrich_film_with_tmdb(film, resp) IN
        /\ calls' = Append(calls, [film |-> film, outcome |-> got])
        /\ tmdb_log' = Append(tmdb_log, [req |-> TmdbRequest(film), resp |-> resp])
        /\ outcome' = got
        /\ IF got.kind = "raise"
           THEN pc' = "raised" /\ UNCHANGED film
           ELSE /\ film' = got.value
                /\ pc' = IF Len(calls') = MaxCalls THEN "returned" ELSE "call"
    /\ UNCHANGED task
    /\ UNCHANGED <<row_vars, diary_vars, feed_vars>>

\* --------------------------------------------------------------- row
ParseRow ==
    /\ task = "row"
    /\ pc = "start"
    /\ outcome' = Return(parse_diary_row(row))
    /\ pc' = "returned"
    /\ UNCHANGED <<task, row_vars, diary_vars, feed_vars, enrich_vars>>

\* ------------------------------------------------------------- machine
IdleRow == row = NoRow

IdleDiary ==
    /\ page = 1
    /\ all_films = <<>>
    /\ fetched = NoPage
    /\ page_log = <<>>
    /\ on_page_calls = <<>>
    /\ requests = <<>>
    /\ clock = 0
    /\ sleeps = 0

IdleFeed ==
    /\ response = NoResponse
    /\ item_idx = 0
    /\ films = <<>>

IdleEnrich ==
    /\ film = NoFilm
    /\ calls = <<>>
    /\ tmdb_log = <<>>

InitRow ==
    /\ task = "row"
    /\ pc = "start"
    /\ row \in Rows
    /\ IdleDiary /\ IdleFeed /\ IdleEnrich

InitDiary ==
    /\ task = "diary"
    /\ pc = "loop"
    /\ IdleRow /\ IdleDiary /\ IdleFeed /\ IdleEnrich

InitFeed ==
    /\ task = "feed"
    /\ pc = "start"
    /\ IdleRow /\ IdleDiary /\ IdleFeed /\ IdleEnrich

InitEnrich ==
    /\ task = "enrich"
    /\ pc = "call"
    /\ film \in EnrichFilms
    /\ calls = <<>>
    /\ tmdb_log = <<>>
    /\ IdleRow /\ IdleDiary /\ IdleFeed

Init ==
    /\ outcome = Pending
    /\ (InitRow \/ InitDiary \/ InitFeed \/ InitEnrich)

Next ==
    \/ ParseRow
    \/ DiaryFetchPage
    \/ DiaryAfterPage
    \/ DiarySleep
    \/ FeedFetch
    \/ FeedParseItem
    \/ FeedReturn
    \/ EnrichCall

Spec == Init /\ [][Next]_vars
\* ------------------------------------------------------- properties
\* The films of the first n pages fetched, in page order.
RECURSIVE ConcatPages(_, _)
ConcatPages(log, n) ==
    IF n = 0 THEN <<>> ELSE ConcatPages(log, n - 1) \o log[n]

\* C1. Pagination termination: the requests are for pages 1, 2, ... in
\* order, each once; a page is requested only after every page before it gave
\* at least one film; and when the call returns after n requests, page n gave
\* no film, no further request can be issued, and the value returned is the
\* films of pages 1..n-1 concatenated in page order.
PaginationTermination ==
    task = "diary" =>
        /\ \A i \in 1..Len(requests) : requests[i].page = i
        /\ on_page_calls = [i \in 1..Len(requests) |-> i]
        /\ \A i \in 1..Len(page_log) : i < Len(requests) => page_log[i] # <<>>
        /\ pc = "returned" =>
            LET n == Len(requests) IN
            /\ Len(page_log) = n
            /\ page_log[n] = <<>>
            /\ ~ENABLED DiaryFetchPage
            /\ outcome = Return(ConcatPages(page_log, n - 1))

\* C1 witness: page 3 was the empty one, and the films of pages 1 and 2 were
\* returned.
PaginationTerminationWitness ==
    /\ task = "diary"
    /\ pc = "returned"
    /\ Len(requests) = 3
    /\ page_log[3] = <<>>
    /\ Len(page_log[1]) = 2
    /\ outcome.value = page_log[1] \o page_log[2]

\* How many of the pages fetched so far gave at least one film.
SuccessfulPages == Cardinality({i \in 1..Len(page_log) : page_log[i] # <<>>})

\* C2. Mandatory pacing: two consecutive page requests are at least 2 seconds
\* apart; a pacing delay has completed between each request and the next; and
\* when the call returns, a delay has completed after every page that gave
\* films, the last such page included.
MandatoryPacing ==
    task = "diary" =>
        /\ \A i \in 1..(Len(requests) - 1) :
            requests[i + 1].at - requests[i].at >= 2
        /\ Len(requests) > 0 => sleeps >= Len(requests) - 1
        /\ pc = "returned" => sleeps = SuccessfulPages

\* C2 witness: three requests exactly 2 seconds apart, the call returned
\* after the delay that followed the last page with films.
MandatoryPacingWitness ==
    /\ task = "diary"
    /\ pc = "returned"
    /\ Len(requests) = 3
    /\ requests[2].at - requests[1].at = 2
    /\ requests[3].at - requests[2].at = 2
    /\ sleeps = 2

\* What the caller holds of the films of the diary once the call has ended.
DeliveredFilms == IF outcome.kind = "return" THEN outcome.value ELSE <<>>

\* C3. No cross-page rollback: when the fetch or parse of page k > 1 fails,
\* the films collected from pages 1..k-1 are not lost to the caller.
NoCrossPageRollback ==
    (task = "diary" /\ pc = "raised" /\ Len(requests) > 1) =>
        DeliveredFilms = ConcatPages(page_log, Len(page_log))

\* C4. Item-level malformations never escalate: for a well-formed document
\* fetched with a success status, parse_rss_feed raises nothing, whatever the
\* text of an item's fields.
ItemMalformationsNeverEscalate ==
    (task = "feed" /\ response.status = 200 /\ response.body # None) =>
        pc # "raised"

\* The rate-limit condition a 429 with the given Retry-After header is to
\* raise, as far as the header decides it.
CarriesRetryAfter(exc, header) ==
    /\ exc.type = "RateLimitError"
    /\ (header # None /\ PyIntOk(header)) => exc.arg = Some(PyInt(header))

\* C5. 429 propagation: a feed fetch and a diary page fetch answered with 429
\* each raise the rate-limit condition, carrying the seconds of the Retry-After
\* header whenever the response has one.
RateLimitPropagation ==
    /\ (task = "feed" /\ pc = "raised" /\ response.status = 429) =>
        CarriesRetryAfter(outcome.exc, response.retry_after)
    /\ (task = "diary" /\ pc = "raised" /\ requests[Len(requests)].status = 429) =>
        CarriesRetryAfter(outcome.exc, requests[Len(requests)].retry_after)

\* The movie TMDB answered call i with, if any.
MovieOf(i) ==
    LET resp == tmdb_log[i].resp IN
    IF resp.status = 200 /\ resp.data # <<>> THEN Some(resp.data[1]) ELSE None

\* C6. Source priority: a call on a Film whose tmdb_id is present returns a
\* Film with the same tmdb_id, whatever TMDB answered; a call on a Film without
\* one returns the id of the TMDB result, or none when there is no result.
SourcePriority ==
    task = "enrich" =>
        \A i \in 1..Len(calls) :
            calls[i].outcome.kind = "return" =>
                IF calls[i].film.tmdb_id # None
                THEN calls[i].outcome.value.tmdb_id = calls[i].film.tmdb_id
                ELSE calls[i].outcome.value.tmdb_id =
                        (IF MovieOf(i) # None THEN Some(Get(MovieOf(i)).id) ELSE None)

\* C6 witness: a Film asserting id 1 was answered by the lookup with the movie
\* of id 2 and a poster, and came back with the poster and its own id 1.
SourcePriorityWitness ==
    /\ task = "enrich"
    /\ \E i \in 1..Len(calls) :
        /\ calls[i].film.tmdb_id = Some(1)
        /\ MovieOf(i) # None
        /\ Get(MovieOf(i)).id = 2
        /\ calls[i].outcome.kind = "return"
        /\ calls[i].outcome.value.poster_url # None
        /\ calls[i].outcome.value.tmdb_id = Some(1)

\* The URL of a relative image path: absent when the path is.
UrlOfPath(path) ==
    IF path = None THEN None
    ELSE Some("https://image.tmdb.org/t/p/w500" \o Get(path))

\* C7. Artwork per field: when TMDB returns a result, poster_url is the URL of
\* its poster path and backdrop_url the URL of its backdrop path, each absent
\* exactly when its own path is.
ArtworkPerField ==
    task = "enrich" =>
        \A i \in 1..Len(calls) :
            (calls[i].outcome.kind = "return" /\ MovieOf(i) # None) =>
                /\ calls[i].outcome.value.poster_url
                    = UrlOfPath(Get(MovieOf(i)).poster_path)
                /\ calls[i].outcome.value.backdrop_url
                    = UrlOfPath(Get(MovieOf(i)).backdrop_path)

\* TMDB answered equal requests with equal responses.
SameAnswers ==
    \A i, j \in 1..Len(tmdb_log) :
        tmdb_log[i].req = tmdb_log[j].req => tmdb_log[i].resp = tmdb_log[j].resp

\* The lookup of the id of a movie that a search returned first answered with
\* that movie.
LookupAgreesWithSearch ==
    \A i, j \in 1..Len(tmdb_log) :
        (/\ tmdb_log[i].req.kind = "search"
         /\ MovieOf(i) # None
         /\ tmdb_log[j].req.kind = "movie"
         /\ tmdb_log[j].req.id = Some(Get(MovieOf(i)).id))
        => tmdb_log[j].resp = [status |-> 200, data |-> <<Get(MovieOf(i))>>]

\* C8. Idempotence of enrichment: against a TMDB that answers equal requests
\* alike and whose lookup agrees with its search, a second call on the Film
\* the first call returned, when that Film has a tmdb_id, returns the same
\* Film field for field.
EnrichIdempotent ==
    (/\ task = "enrich"
     /\ Len(calls) >= 2
     /\ SameAnswers
     /\ LookupAgreesWithSearch
     /\ calls[1].outcome.value.tmdb_id # None)
    => calls[2].outcome = calls[1].outcome

\* C8 witness: the first call searched and resolved an id and artwork, the
\* second looked that id up and returned the same Film.
EnrichIdempotentWitness ==
    /\ task = "enrich"
    /\ Len(calls) >= 2
    /\ SameAnswers
    /\ LookupAgreesWithSearch
    /\ tmdb_log[1].req.kind = "search"
    /\ tmdb_log[2].req.kind = "movie"
    /\ calls[1].film.tmdb_id = None
    /\ calls[1].outcome.value.tmdb_id = Some(2)
    /\ calls[1].outcome.value.poster_url # None
    /\ calls[2].film = calls[1].outcome.value
    /\ calls[2].outcome = calls[1].outcome

\* The ratings of the Film model, in tenths of a star: 0.5, 1.0, ..., 5.0.
RatingDomain == {5 * n : n \in 1..10}

\* C9. Half-star mapping: the rating of a parsed row is absent or in the
\* domain 0.5 .. 5.0; for a rating span "rating rated-<n>" it is n/2 stars when
\* n is 1..10, and absent when n is 0 or the suffix is no number.
HalfStarMapping ==
    (task = "row" /\ pc = "returned" /\ outcome.value # None) =>
        LET rating == Get(outcome.value).rating
            span == row.rating_span
        IN /\ rating = None \/ Get(rating) \in RatingDomain
           /\ (Len(span) = 2 /\ span[1] = PlainClass("rating")) =>
                IF PyIntOk(span[2].suffix) /\ PyInt(span[2].suffix) \in 1..10
                THEN rating = Some(5 * PyInt(span[2].suffix))
                ELSE (span[2].suffix = <<"0">> \/ ~PyIntOk(span[2].suffix))
                     => rating = None

\* C10. Rewatch default: a parsed row is a rewatch only if its rewatch cell
\* carries icon-rewatch and not icon-status-off; with neither marker present
\* (a cell with neither class, or no cell) it is not a rewatch.
RewatchDefault ==
    (task = "row" /\ pc = "returned" /\ outcome.value # None) =>
        LET rewatch == Get(outcome.value).rewatch
            classes == IF row.rewatch_td = None THEN {} ELSE Get(row.rewatch_td)
        IN /\ rewatch => ("icon-rewatch" \in classes /\ "icon-status-off" \notin classes)
           /\ ("icon-rewatch" \notin classes /\ "icon-status-off" \notin classes)
                => ~rewatch
====
